---- MODULE Spec2Model ----
(***************************************************************************)
(* AudioRailRider backend: the blueprint orchestration of GeminiService    *)
(* (cache lookup, feature extraction, candidate generation, procedural     *)
(* fallback, TTL cache) and the thread pool that runs the audio analysis.  *)
(*                                                                         *)
(* Spec      the orchestration: concurrent generate_blueprint requests on  *)
(*           one GeminiService instance.                                   *)
(* ExecSpec  the analysis executor: concurrent analyze_audio callers on    *)
(*           the module-level ThreadPoolExecutor.                          *)
(* AnalysisSpec   one run of _analyze_audio_sync, call by call.            *)
(* TrackSpec      one call of AdvancedTrackGenerator.generate_track.       *)
(* ComponentSpec  one call of AdvancedTrackGenerator._create_component.    *)
(* TreeSpec       one tick of a behaviour tree.                            *)
(* UploadSpec     one POST /api/generate-blueprint through                 *)
(*                validate_audio_file.                                     *)
(* CallSpec       one call of a function on its own: the section           *)
(*                classifier, the component pool, the procedural fallback  *)
(*                and the cache key.                                       *)
(***************************************************************************)
EXTENDS Integers, Sequences, FiniteSets, TLC

(***************************************************************************)
(* Bounds of the model.                                                    *)
(***************************************************************************)
\* concurrent generate_blueprint requests in flight
NReq == 2
\* TTL of blueprint_cache in clock ticks (the program: 3600 s, one tick = 1800 s)
CacheTTL == 2
\* capacity of blueprint_cache (the program: 100 entries), scaled to the key space
CacheMaxSize == 1
\* inline/Files-API threshold in model bytes (the program: 2 MB)
SIZE_THRESHOLD == 2
\* concurrent analyze_audio callers
NCallers == 4
\* largest CPU count tried
MaxCpu == 9
\* the admission bound of the specification (there 50), scaled to NCallers
AdmissionBound == 3

Req == 1..NReq
Callers == 1..NCallers

Max(a, b) == IF a >= b THEN a ELSE b
Min(a, b) == IF a <= b THEN a ELSE b

(***************************************************************************)
(* Request inputs.  Audio is a byte string; options are None or a mapping, *)
(* kept as the list of its (key, value) items in insertion order.  Option  *)
(* keys are numbered in the lexicographic order of their names.            *)
(***************************************************************************)
Audio == {<<1>>, <<2, 1, 1>>}
ContentTypes == {"audio/mpeg", "audio/wav"}

NoneOptions == [none |-> TRUE, items |-> <<>>]
Dict(items) == [none |-> FALSE, items |-> items]
Options ==
    {NoneOptions, Dict(<<>>), Dict(<< <<1, 1>> >>),
     Dict(<< <<1, 1>>, <<2, 1>> >>), Dict(<< <<2, 1>>, <<1, 1>> >>)}

\* Python truthiness of `options` (None and {} are falsy)
Truthy(options) == ~options.none /\ Len(options.items) > 0

\* the mapping a dict denotes: dicts compare equal whatever their insertion order
AsMapping(options) == {options.items[i] : i \in 1..Len(options.items)}
SameOptions(o1, o2) == o1.none = o2.none /\ AsMapping(o1) = AsMapping(o2)

RECURSIVE SortedItems(_)
\* the items of a dict ordered by key, as json.dumps(sort_keys=True) emits them
SortedItems(items) ==
    IF items = {} THEN <<>>
    ELSE LET lo == CHOOSE p \in items : \A q \in items : p[1] <= q[1]
         IN <<lo>> \o SortedItems(items \ {lo})

\* one (key, value) item as a byte of the serialized text
ItemByte(p) == 100 + 10 * p[1] + p[2]

\* json.dumps(options, sort_keys=True).encode('utf-8')
json_dumps_sorted(options) ==
    LET s == SortedItems(AsMapping(options))
    IN [i \in 1..Len(s) |-> ItemByte(s[i])]

\* hashlib.sha256 over the bytes fed to it, taken as injective
sha256_hexdigest(bytes) == <<"sha256", bytes>>

\* a key computed from the audio bytes alone
generate_cache_key_audio_only(audio_bytes, options) == sha256_hexdigest(audio_bytes)

\* GeminiService._generate_cache_key
_generate_cache_key(audio_bytes, options) ==
    sha256_hexdigest(IF Truthy(options)
                     THEN audio_bytes \o json_dumps_sorted(options)
                     ELSE audio_bytes)

(***************************************************************************)
(* Floating point.  A float is an integer count of 2^-FracBits; a result   *)
(* is rounded to the nearest value with MantissaBits significant bits,     *)
(* ties to even, as IEEE 754 does with 53 bits.                            *)
(***************************************************************************)
FracBits == 8
MantissaBits == 12

RECURSIVE Pow2(_)
Pow2(n) == IF n = 0 THEN 1 ELSE 2 * Pow2(n - 1)

Unit == Pow2(FracBits)
Abs(x) == IF x < 0 THEN -x ELSE x

RoundHalfEven(n, d) ==
    LET f == n \div d
        r == n % d
    IN  IF 2 * r < d THEN f
        ELSE IF 2 * r > d THEN f + 1
        ELSE IF f % 2 = 0 THEN f ELSE f + 1

\* the first integer that needs more than MantissaBits bits
MantissaEnd == Pow2(MantissaBits)

RECURSIVE Quantum(_, _)
Quantum(q, step) == IF q < MantissaEnd * step THEN step ELSE Quantum(q, 2 * step)

\* n / d units, rounded to a float
Round(n, d) ==
    LET a == Abs(n)
        step == Quantum(a \div d, 1)
        m == step * RoundHalfEven(a, d * step)
    IN  IF n < 0 THEN -m ELSE m

Float(n, d) == Round(n * Unit, d)
FMul(a, b) == Round(a * b, Unit)
FDiv(a, b) == Round(a * Unit, b)
FAdd(a, b) == Round(a + b, 1)
FSub(a, b) == Round(a - b, 1)
int(x) == IF x < 0 THEN -(Abs(x) \div Unit) ELSE x \div Unit

RECURSIVE FSum(_, _, _)
FSum(seq, from, to) ==
    IF from > to THEN 0 ELSE FAdd(FSum(seq, from, to - 1), seq[to])

\* np.mean of seq[from..to]
FMean(seq, from, to) == FDiv(FSum(seq, from, to), Float(to - from + 1, 1))

RECURSIVE SeqMax(_, _)
SeqMax(seq, n) == IF n = 1 THEN seq[1] ELSE Max(SeqMax(seq, n - 1), seq[n])
RECURSIVE SeqMin(_, _)
SeqMin(seq, n) == IF n = 1 THEN seq[1] ELSE Min(SeqMin(seq, n - 1), seq[n])

\* a dict as a function on its keys
Entry(key, value) == [k \in {key} |-> value]

(***************************************************************************)
(* Features, blueprints and results.                                       *)
(***************************************************************************)
\* audio_features = {} before the analysis has returned
EmptyFeatures == [empty |-> TRUE, duration |-> 0, energy |-> 0]

\* what _analyze_audio_sync returns for decodable audio: a non-empty dict that
\* is a function of the bytes (duration in seconds, energy in percent)
AudioFeatures(audio_bytes) ==
    [empty |-> FALSE, duration |-> 60 * Len(audio_bytes), energy |-> 40 * audio_bytes[1]]

\* features.get(name, default)
FeatureGet(features, name, default) ==
    IF features.empty THEN default
    ELSE IF name = "duration" THEN features.duration ELSE features.energy

\* a track value: absent key, an empty or non-empty list
AbsentTrack == [tag |-> "absent", len |-> 0]
ListTrack(n) == [tag |-> "list", len |-> n]

NoneBlueprint ==
    [isNone |-> TRUE, rideName |-> "", track |-> AbsentTrack,
     hasOptions |-> FALSE, generationOptions |-> NoneOptions]

\* num_segments of the procedural fallback
NumSegments(duration) == Max(12, Min(30, duration \div 8))

\* a track given by its segments
SegmentTrack(segments) ==
    [tag |-> "list", len |-> Len(segments), segments |-> segments]

\* math.sin(i * math.pi / n) for 0 <= i <= n, by Bhaskara's rational
\* approximation 16 x (pi - x) / (5 pi^2 - 4 x (pi - x)), within 0.002 of the sine
FSin(i, n) == Round(16 * i * (n - i) * Unit, 5 * n * n - 4 * i * (n - i))

\* an intensity that takes the energy for a percentage
IntensityOfPercent(energy, i, num_segments) ==
    FAdd(FAdd(Float(30, 1), FMul(energy, Float(100, 1))),
         FMul(Float(20, 1), FSin(i, num_segments)))

\* line 399, i counting from 0
Intensity(energy, i, num_segments) ==
    FAdd(FAdd(Float(30, 1), FMul(energy, Float(40, 1))),
         FMul(Float(20, 1), FSin(i, num_segments)))

\* lines 402-446: the segment dict, i counting from 0
Segment(i, intensity) ==
    IF intensity > Float(70, 1)
    THEN IF i % 5 = 0
         THEN Entry("component", "loop")
              @@ Entry("radius", FAdd(Float(50, 1), FMul(intensity, Float(1, 2))))
              @@ Entry("intensity", intensity)
         ELSE IF i % 3 = 0
         THEN Entry("component", "barrelRoll")
              @@ Entry("rotations", Float(1, 1))
              @@ Entry("length", Float(80, 1))
              @@ Entry("intensity", intensity)
         ELSE Entry("component", "drop")
              @@ Entry("length", FAdd(Float(60, 1), FMul(intensity, Float(8, 10))))
              @@ Entry("angle", FSub(-Float(30, 1), FMul(intensity, Float(3, 10))))
              @@ Entry("intensity", intensity)
    ELSE IF intensity > Float(45, 1)
    THEN IF i % 2 = 0
         THEN Entry("component", "turn")
              @@ Entry("length", Float(70, 1))
              @@ Entry("direction", IF i % 4 = 0 THEN "left" ELSE "right")
              @@ Entry("angle", FAdd(Float(45, 1), FMul(intensity, Float(1, 2))))
              @@ Entry("radius", Float(100, 1))
              @@ Entry("intensity", intensity)
         ELSE Entry("component", "climb")
              @@ Entry("length", Float(60, 1))
              @@ Entry("angle", FAdd(Float(20, 1), FMul(intensity, Float(2, 10))))
              @@ Entry("intensity", intensity)
    ELSE Entry("component", "climb")
         @@ Entry("length", Float(50, 1))
         @@ Entry("angle", Float(10, 1))
         @@ Entry("intensity", intensity)

\* lines 451-456
Palette(energy) ==
    IF energy > Float(7, 10) THEN <<"#FF6B6B", "#FFA500", "#FFD700">>
    ELSE IF energy > Float(4, 10) THEN <<"#4ECDC4", "#45B7D1", "#96CEB4">>
    ELSE <<"#9B59B6", "#8E44AD", "#E8DAEF">>

\* lines 388-465; the features hold the energy in percent
ProceduralBlueprint(features) ==
    LET energy == Float(FeatureGet(features, "energy", 50), 100)
        num_segments == NumSegments(FeatureGet(features, "duration", 120))
    IN  [isNone |-> FALSE, rideName |-> "Procedural Ride",
         moodDescription |-> <<num_segments, energy>>,
         palette |-> Palette(energy),
         track |-> SegmentTrack([i \in 1..num_segments |->
                                    Segment(i - 1, Intensity(energy, i - 1, num_segments))]),
         hasOptions |-> FALSE, generationOptions |-> NoneOptions]

\* the feature dicts generate_blueprint can hold, and the fallback of each
AllFeatures == {EmptyFeatures} \cup {AudioFeatures(audio_bytes) : audio_bytes \in Audio}
ProceduralBlueprints == [features \in AllFeatures |-> ProceduralBlueprint(features)]

\* GeminiService._procedural_fallback
_procedural_fallback(features) == ProceduralBlueprints[features]

\* the values response.parsed takes: None when the text did not parse into the
\* schema, or a schema-valid blueprint (12 to 40 track segments)
ResponseKinds == {"none", "valid"}
ResponseBlueprint(kind) ==
    IF kind = "none" THEN NoneBlueprint
    ELSE [isNone |-> FALSE, rideName |-> "Test Ride",
          track |-> ListTrack(12),
          hasOptions |-> FALSE, generationOptions |-> NoneOptions]

\* lines 347-349: generationOptions is added to a truthy dict blueprint
WithGenerationOptions(blueprint, options) ==
    IF blueprint.isNone THEN blueprint
    ELSE [blueprint EXCEPT !.hasOptions = TRUE, !.generationOptions = options]

\* a result written before its features are filled in
MakeResultPartial(blueprint, features) == [blueprint |-> blueprint, features |-> EmptyFeatures]

\* line 351: result = {"blueprint": blueprint, "features": audio_features}
MakeResult(blueprint, features) == [blueprint |-> blueprint, features |-> features]
NoResult == MakeResult(NoneBlueprint, EmptyFeatures)

\* the track of a returned blueprint is present and non-empty
TrackNonEmpty(result) ==
    /\ ~result.blueprint.isNone
    /\ result.blueprint.track.tag = "list"
    /\ result.blueprint.track.len > 0

(***************************************************************************)
(* cachetools.TTLCache(maxsize, ttl) as blueprint_cache uses it: a list of *)
(* entries, least recently used first, each with the ticks since it was    *)
(* written.                                                                *)
(***************************************************************************)
Live(e) == e.age < CacheTTL

\* key in blueprint_cache
CacheContains(c, key) == \E i \in 1..Len(c) : c[i].key = key /\ Live(c[i])

\* blueprint_cache[key] for a key that is in the cache
CacheEntry(c, key) == c[CHOOSE i \in 1..Len(c) : c[i].key = key]
CacheValue(c, key) == CacheEntry(c, key).value

\* the read marks the entry most recently used
CacheTouch(c, key) ==
    LET IsKey(e) == e.key = key
        NotKey(e) == e.key # key
    IN SelectSeq(c, NotKey) \o SelectSeq(c, IsKey)

RECURSIVE EvictWhileFull(_)
EvictWhileFull(c) == IF Len(c) >= CacheMaxSize THEN EvictWhileFull(Tail(c)) ELSE c

\* a store that keeps the entry a key already has
CacheStoreKeepFirst(c, key, value) ==
    LET alive == SelectSeq(c, Live)
    IN IF \E i \in 1..Len(alive) : alive[i].key = key THEN alive
       ELSE Append(EvictWhileFull(alive), [key |-> key, value |-> value, age |-> 0])

\* blueprint_cache[key] = value: expired entries go, then the least recently
\* used ones while the cache is full, and the entry is written with a new TTL
CacheStore(c, key, value) ==
    LET NotKey(e) == e.key # key
        alive == SelectSeq(c, Live)
        has == \E i \in 1..Len(alive) : alive[i].key = key
        room == IF has THEN SelectSeq(alive, NotKey) ELSE EvictWhileFull(alive)
    IN Append(room, [key |-> key, value |-> value, age |-> 0])

(***************************************************************************)
(* State.                                                                  *)
(***************************************************************************)
VARIABLES
    sdk,        \* "ok": google-genai imported and client built; "no_key": imported,
                \* self.client is None; "no_sdk": import failed, APIError = Exception
    cache,      \* self.blueprint_cache
    req,        \* the generate_blueprint calls in flight, one per request slot
    event,      \* what generate_blueprint did last: a call began and missed the
                \* cache, or a call returned; with what held when that call began
    stored,     \* per key, the result last written under it less than a TTL ago
                \* and by which request; or that a later store has evicted it
    cpuCount,   \* os.cpu_count(): 0 stands for None
    caller,     \* analyze_audio callers: "idle", "queued", "running", "ok", "failed"
    workQueue,  \* the executor's work queue: callers not yet picked up by a worker
    analysis,   \* one run of _analyze_audio_sync: where it is and how it ended
    trackgen,   \* one call of AdvancedTrackGenerator.generate_track
    created,    \* one call of AdvancedTrackGenerator._create_component
    tree,       \* a behaviour tree, its context, and the status of its tick
    upload,     \* one POST /api/generate-blueprint: where it is and how it ended
    call        \* the last call of a function run on its own: its name, its
                \* arguments and what it returned

vars ==
    <<sdk, cache, req, event, stored, cpuCount, caller, workQueue, analysis, trackgen,
      created, tree, upload, call>>
svcVars == <<sdk, cache, req, event, stored>>
execVars == <<cpuCount, caller, workQueue>>
\* the units that are run on their own
unitVars == <<analysis, trackgen, created, tree, upload, call>>
analysisOthers == <<svcVars, execVars, trackgen, created, tree, upload, call>>
trackOthers == <<svcVars, execVars, analysis, created, tree, upload, call>>
createOthers == <<svcVars, execVars, analysis, trackgen, tree, upload, call>>
treeOthers == <<svcVars, execVars, analysis, trackgen, created, upload, call>>
uploadOthers == <<svcVars, execVars, analysis, trackgen, created, tree, call>>
callOthers == <<svcVars, execVars, analysis, trackgen, created, tree, upload>>

NoCall == [fn |-> "none", pc |-> "idle"]
Pending(fn, args) == [fn |-> fn, pc |-> "called", args |-> args]
Returns(result) ==
    call' = [fn |-> call.fn, pc |-> "returned", args |-> call.args, result |-> result]
Calling(fn) == call.fn = fn /\ call.pc = "called"
HasReturned(fn) == call.fn = fn /\ call.pc = "returned"

Input(audio, ctype, options) == [audio |-> audio, ctype |-> ctype, options |-> options]
NoInput == Input(<<>>, "", NoneOptions)

\* every request the input sets give
AllInputs == {Input(a, t, o) : a \in Audio, t \in ContentTypes, o \in Options}

\* the requests made: one audio under both content types, with no options, empty
\* options and real options; and one audio above the inline threshold
Inputs ==
    {Input(<<1>>, "audio/mpeg", NoneOptions), Input(<<1>>, "audio/wav", NoneOptions),
     Input(<<1>>, "audio/mpeg", Dict(<<>>)),
     Input(<<2, 1, 1>>, "audio/mpeg", Dict(<< <<2, 1>>, <<1, 1>> >>))}
Keys == {_generate_cache_key(i.audio, i.options) : i \in Inputs}

NoOutcome == [kind |-> "none", result |-> NoResult, status |-> 0, via |-> ""]
Returned(result, via) == [kind |-> "result", result |-> result, status |-> 200, via |-> via]
Raised(status) == [kind |-> "error", result |-> NoResult, status |-> status, via |-> ""]

\* a call: its arguments, its position, its locals, and the steps it has taken
IdleReq ==
    [pc |-> "idle", audio |-> <<>>, ctype |-> "", options |-> NoneOptions,
     features |-> EmptyFeatures, steps |-> <<>>, analysis_status |-> 0]

NotStored ==
    [set |-> FALSE, value |-> NoResult, writer |-> NoInput, age |-> 0, evicted |-> FALSE]

\* what held when a call began:
\*   afterSame  the call that returned just before it had the same arguments and
\*              returned a result (afterVia: from where; prev: which) less than
\*              a TTL ago
\*   keyLive    a result was written under its key less than a TTL ago (keyValue,
\*              by a request with arguments writer); keyKept: and no store has
\*              evicted it since
NoContext ==
    [afterSame |-> FALSE, afterVia |-> "", prev |-> NoResult,
     keyLive |-> FALSE, keyKept |-> FALSE, keyValue |-> NoResult, writer |-> NoInput]

\* replaced: what was stored under the key when the call wrote its result
NoEvent ==
    [ev |-> "none", call |-> IdleReq, outcome |-> NoOutcome, ctx |-> NoContext,
     replaced |-> NotStored, age |-> 0]
BeganEvent(q, ctx) == [NoEvent EXCEPT !.ev = "began", !.call = q, !.ctx = ctx]
ReturnEvent(q, outcome, ctx) ==
    [NoEvent EXCEPT !.ev = "returned", !.call = q, !.outcome = outcome, !.ctx = ctx]

KeyOf(q) == _generate_cache_key(q.audio, q.options)
Did(q, step) == \E i \in 1..Len(q.steps) : q.steps[i] = step
Count(q, step) == Cardinality({i \in 1..Len(q.steps) : q.steps[i] = step})
Before(q, s1, s2) ==
    \E i, j \in 1..Len(q.steps) : i < j /\ q.steps[i] = s1 /\ q.steps[j] = s2
\* every call the state shows: those in flight and the one of the last event
CallsShown == {req[r] : r \in Req} \cup {event.call}

(***************************************************************************)
(* The except clauses of generate_blueprint (lines 359-370) and the        *)
(* fallback path (lines 372-379).                                          *)
(***************************************************************************)
\* which except clause takes an exception of class exc: without the SDK,
\* APIError and BadResponseError are Exception and the first clause takes all
ExceptClause(exc, config) ==
    IF config = "no_sdk" \/ exc \in {"APIError", "ClientError"} THEN "api"
    ELSE IF exc = "JSONDecodeError" THEN "json"
    ELSE "other"

\* a handler that re-raises every exception of the third clause
ReraisesAlways(clause, features) == clause = "other"

\* the third clause re-raises when audio_features is still empty
Reraises(clause, features) == clause = "other" /\ features.empty

\* a fallback that copies the request's options into its blueprint
FallbackBlueprintWithOptions(q) ==
    WithGenerationOptions(_procedural_fallback(q.features), q.options)

\* line 374: fb = self._procedural_fallback(audio_features)
FallbackBlueprint(q) == _procedural_fallback(q.features)

\* what the call returns or raises after an exception left the try block
HandleException(q, exc, config) ==
    IF Reraises(ExceptClause(exc, config), q.features)
    THEN Raised(500)
    ELSE Returned(MakeResult(FallbackBlueprint(q), q.features), "fallback")

\* the call as it ends after an exception: the failed step, and the fallback if it ran
AfterException(q, exc, step, config) ==
    [q EXCEPT !.pc = "done",
              !.steps = @ \o IF HandleException(q, exc, config).kind = "result"
                             THEN <<step, "fallback">> ELSE <<step>>]

(***************************************************************************)
(* generate_blueprint, one action per stretch of code between two awaits.  *)
(***************************************************************************)
\* what held when a call with these arguments begins
Context(audio, ctype, options) ==
    LET key == _generate_cache_key(audio, options)
        same == /\ event.ev = "returned" /\ event.outcome.kind = "result"
                /\ event.call.audio = audio /\ event.call.ctype = ctype
                /\ event.call.options = options
    IN [afterSame |-> same,
        afterVia |-> IF same THEN event.outcome.via ELSE "",
        prev |-> IF same THEN event.outcome.result ELSE NoResult,
        keyLive |-> stored[key].set,
        keyKept |-> stored[key].set /\ ~stored[key].evicted,
        keyValue |-> stored[key].value,
        writer |-> stored[key].writer]

\* a lookup that never finds anything
LookupAlwaysMiss(c, key) == FALSE

\* line 295: cache_key in self.blueprint_cache
Lookup(c, key) == CacheContains(c, key)

\* lines 291-303: the key, the cache lookup, and on a miss the analysis is awaited.
\* The membership test and the read of lines 295 and 297 see the same clock tick.
Begin(r, audio, ctype, options) ==
    /\ req[r].pc = "idle"
    /\ LET key == _generate_cache_key(audio, options)
           q == [IdleReq EXCEPT !.audio = audio, !.ctype = ctype, !.options = options]
           ctx == Context(audio, ctype, options)
       IN IF Lookup(cache, key)
          THEN /\ event' = ReturnEvent([q EXCEPT !.pc = "done"],
                                       Returned(CacheValue(cache, key), "cache"), ctx)
               /\ cache' = CacheTouch(cache, key)
               /\ UNCHANGED req
          ELSE /\ req' = [req EXCEPT ![r] = [q EXCEPT !.pc = "analyzing",
                                                      !.steps = <<"extract">>]]
               /\ event' = BeganEvent(req'[r], ctx)
               /\ UNCHANGED cache
    /\ UNCHANGED <<sdk, stored, execVars, unitVars>>

\* the call returns or raises
Finish(r, q, outcome) ==
    /\ req' = [req EXCEPT ![r] = IdleReq]
    /\ event' = ReturnEvent(q, outcome, NoContext)

\* the call goes on to its next await
Continue(r, q) ==
    /\ req' = [req EXCEPT ![r] = q]
    /\ event' = NoEvent

\* lines 303-322: the analysis returned; the prompt, the client check, the upload choice
AnalysisReturns(r) ==
    /\ req[r].pc = "analyzing"
    /\ LET q == [req[r] EXCEPT !.features = AudioFeatures(req[r].audio),
                               !.steps = @ \o <<"extract_ok", "candidate">>]
       IN IF sdk # "ok"
          THEN Finish(r, AfterException(q, "RuntimeError", "candidate_fail", sdk),
                      HandleException(q, "RuntimeError", sdk))
          ELSE IF Len(q.audio) <= SIZE_THRESHOLD
          THEN Continue(r, [q EXCEPT !.pc = "generating", !.steps = @ \o <<"generate">>])
          ELSE Continue(r, [q EXCEPT !.pc = "uploading", !.steps = @ \o <<"upload">>])
    /\ UNCHANGED <<sdk, cache, stored, execVars, unitVars>>

\* the status codes of the HTTPException _analyze_audio_sync raises
AnalysisStatuses == {400, 500}

\* line 303 raises (lines 41-48 pass on what the analysis raised);
\* analysis_status keeps the status code of that exception
AnalysisRaises(r, status_code) ==
    /\ req[r].pc = "analyzing"
    /\ LET q == [req[r] EXCEPT !.analysis_status = status_code]
       IN  Finish(r, AfterException(q, "HTTPException", "extract_fail", sdk),
                  HandleException(q, "HTTPException", sdk))
    /\ UNCHANGED <<sdk, cache, stored, execVars, unitVars>>

\* lines 321-322 and 77-162: the upload returned, the with-block assigns contents
\* and leaves, and the context manager awaits the delete of the remote file
UploadReturns(r) ==
    /\ req[r].pc = "uploading"
    /\ Continue(r, [req[r] EXCEPT !.pc = "deleting", !.steps = @ \o <<"delete">>])
    /\ UNCHANGED <<sdk, cache, stored, execVars, unitVars>>

\* both upload attempts failed
UploadRaises(r, exc) ==
    /\ req[r].pc = "uploading"
    /\ Finish(r, AfterException(req[r], exc, "candidate_fail", sdk),
              HandleException(req[r], exc, sdk))
    /\ UNCHANGED <<sdk, cache, stored, execVars, unitVars>>

\* lines 143-155 and 324-331: the delete returned or failed (a failure is only
\* logged), and generate_content is awaited
DeleteReturns(r) ==
    /\ req[r].pc = "deleting"
    /\ Continue(r, [req[r] EXCEPT !.pc = "generating", !.steps = @ \o <<"generate">>])
    /\ UNCHANGED <<sdk, cache, stored, execVars, unitVars>>

\* lines 329-331: generate_content is awaited with no timeout; when the time
\* allowed for the candidate step has passed, the call goes on waiting
TimeLimitPasses(r) ==
    /\ req[r].pc = "generating"
    /\ ~Did(req[r], "overdue")
    /\ Continue(r, [req[r] EXCEPT !.steps = @ \o <<"overdue">>])
    /\ UNCHANGED <<sdk, cache, stored, execVars, unitVars>>

\* lines 333-357: generate_content returned; the result is cached and returned
GeneratorReturns(r, kind) ==
    /\ req[r].pc = "generating"
    /\ LET q == req[r]
           key == KeyOf(q)
           blueprint == WithGenerationOptions(ResponseBlueprint(kind), q.options)
           result == MakeResult(blueprint, q.features)
           written == CacheStore(cache, key, result)
       IN /\ cache' = written
          /\ stored' = [k \in Keys |->
                          IF k = key
                          THEN [set |-> TRUE, value |-> result,
                                writer |-> Input(q.audio, q.ctype, q.options),
                                age |-> 0, evicted |-> FALSE]
                          ELSE IF CacheContains(cache, k) /\ ~CacheContains(written, k)
                          THEN [NotStored EXCEPT !.set = TRUE, !.age = stored[k].age,
                                                 !.evicted = TRUE]
                          ELSE stored[k]]
          /\ req' = [req EXCEPT ![r] = IdleReq]
          /\ event' = [ReturnEvent([q EXCEPT !.pc = "done",
                                             !.steps = @ \o <<"candidate_ok", "store">>],
                                    Returned(result, "generator"), NoContext)
                          EXCEPT !.replaced = stored[key]]
    /\ UNCHANGED <<sdk, execVars, unitVars>>

\* generate_content raised, or response.text was not JSON
GeneratorRaises(r, exc) ==
    /\ req[r].pc = "generating"
    /\ Finish(r, AfterException(req[r], exc, "candidate_fail", sdk),
              HandleException(req[r], exc, sdk))
    /\ UNCHANGED <<sdk, cache, stored, execVars, unitVars>>

\* the clock advances by one tick.  An expired entry is invisible to every
\* cache operation, so it is dropped here and not at the next store.
Older(age) == Min(age + 1, CacheTTL)
Tick ==
    /\ cache' = SelectSeq([i \in 1..Len(cache) |-> [cache[i] EXCEPT !.age = Older(@)]], Live)
    /\ stored' = [k \in Keys |-> IF Older(stored[k].age) = CacheTTL THEN NotStored
                                 ELSE [stored[k] EXCEPT !.age = Older(@)]]
    /\ event' = IF /\ event.ev = "returned" /\ event.outcome.kind = "result"
                   /\ Older(event.age) < CacheTTL
                THEN [event EXCEPT !.age = Older(@)]
                ELSE NoEvent
    /\ UNCHANGED <<sdk, req, execVars, unitVars>>

GeneratorErrors == {"APIError", "ClientError", "JSONDecodeError", "Exception"}

(***************************************************************************)
(* The analysis executor: audio_analysis_service.py lines 17-18, 203-219.  *)
(***************************************************************************)
\* os.cpu_count() or 4
DefaultWorkers == 4
WorkersFor(cpus) == IF cpus = 0 THEN DefaultWorkers ELSE cpus
WORKERS == WorkersFor(cpuCount)

Queued == {c \in Callers : caller[c] = "queued"}
Running == {c \in Callers : caller[c] = "running"}

\* a pool that starts a thread for every work item
WorkerAvailableAlways(running, workers) == TRUE

\* ThreadPoolExecutor: a work item is taken when one of max_workers threads is free
WorkerAvailable(running, workers) == running < workers

\* analyze_audio: loop.run_in_executor puts the work item on the executor's queue
Submit(c) ==
    /\ caller[c] = "idle"
    /\ caller' = [caller EXCEPT ![c] = "queued"]
    /\ workQueue' = Append(workQueue, c)
    /\ UNCHANGED <<cpuCount, svcVars, unitVars>>

\* a free worker thread takes the oldest work item and calls _analyze_audio_sync
WorkerStarts ==
    /\ workQueue # <<>>
    /\ WorkerAvailable(Cardinality(Running), WORKERS)
    /\ caller' = [caller EXCEPT ![Head(workQueue)] = "running"]
    /\ workQueue' = Tail(workQueue)
    /\ UNCHANGED <<cpuCount, svcVars, unitVars>>

\* _analyze_audio_sync returned the features
WorkerReturns(c) ==
    /\ caller[c] = "running"
    /\ caller' = [caller EXCEPT ![c] = "ok"]
    /\ UNCHANGED <<cpuCount, workQueue, svcVars, unitVars>>

\* _analyze_audio_sync raised HTTPException (400 or 500)
WorkerRaises(c) ==
    /\ caller[c] = "running"
    /\ caller' = [caller EXCEPT ![c] = "failed"]
    /\ UNCHANGED <<cpuCount, workQueue, svcVars, unitVars>>

\* the awaiting coroutine resumes with the result or the exception
Resume(c) ==
    /\ caller[c] \in {"ok", "failed"}
    /\ caller' = [caller EXCEPT ![c] = "idle"]
    /\ UNCHANGED <<cpuCount, workQueue, svcVars, unitVars>>

(***************************************************************************)
(* Specifications.                                                         *)
(***************************************************************************)
(***************************************************************************)
(* _analyze_audio_sync, one library call after the other inside one try.   *)
(* Each call returns or raises; librosa.load yields the decoded duration   *)
(* and beat_track the tempo.                                               *)
(***************************************************************************)
MAX_ANALYZE_SECONDS == 120
DefaultBpm == 120

Stages ==
    <<"load", "beat_track", "hpss", "stft", "chroma_stft", "onset_detect", "tempo",
      "agglomerative">>

\* what librosa.load can decode (seconds), and what beat_track can estimate
Durations == {1, 60, MAX_ANALYZE_SECONDS, MAX_ANALYZE_SECONDS + 80}
Tempos == {0, 90, 140}
AnalysisErrors == {"LibrosaError", "ValueError"}
Messages == {"bad header", "no backend"}

FeatureKeys ==
    {"duration", "bpm", "key", "energy", "harmonicEnergy", "percussiveEnergy",
     "spectralCentroid", "spectralRolloff", "spectralFlatness", "spectralFlux",
     "onsetTimes", "tempoCurve", "structuralSegments", "frameAnalyses"}

NoAnalysisOutcome == [kind |-> "none"]
FeaturesReturned(duration, bpm) ==
    [kind |-> "features", duration |-> duration, bpm |-> bpm, keys |-> FeatureKeys]
HTTPException(status_code, detail) ==
    [kind |-> "HTTPException", status_code |-> status_code, detail |-> detail]

\* lines 194-201: the two except clauses around the whole body
AnalysisExcept(exc, message) ==
    IF exc = "LibrosaError"
    THEN HTTPException(400, <<"Audio processing failed: ", message>>)
    ELSE HTTPException(500, <<"An unexpected error occurred during audio analysis.">>)

\* pc: index into Stages of the call about to be made, Len(Stages) + 1 when
\* the features are ready to be returned, 0 when the run has ended
NotAnalysing ==
    [pc |-> 0, duration |-> 0, bpm |-> 0, raisedIn |-> "none", exc |-> "none",
     message |-> "none", outcome |-> NoAnalysisOutcome, awaited |-> NoAnalysisOutcome]
AnalysisStart == [NotAnalysing EXCEPT !.pc = 1]

AtStage(name) == analysis.pc \in 1..Len(Stages) /\ Stages[analysis.pc] = name

\* lines 43-51: decode, take the duration, cap it
LoadReturns(decoded) ==
    /\ AtStage("load")
    /\ analysis' = [analysis EXCEPT !.pc = @ + 1,
                                    !.duration = IF decoded > MAX_ANALYZE_SECONDS
                                                 THEN MAX_ANALYZE_SECONDS ELSE decoded]
    /\ UNCHANGED analysisOthers

\* lines 54-55: bpm = float(tempo) if tempo else 120.0
BeatTrackReturns(tempo) ==
    /\ AtStage("beat_track")
    /\ analysis' = [analysis EXCEPT !.pc = @ + 1,
                                    !.bpm = IF tempo # 0 THEN tempo ELSE DefaultBpm]
    /\ UNCHANGED analysisOthers

\* lines 58-170: the remaining calls only feed the returned dict
StageReturns ==
    /\ analysis.pc \in 1..Len(Stages)
    /\ ~AtStage("load") /\ ~AtStage("beat_track")
    /\ analysis' = [analysis EXCEPT !.pc = @ + 1]
    /\ UNCHANGED analysisOthers

\* any call raises: control leaves the try for the except clauses
StageRaises(exc, message) ==
    /\ analysis.pc \in 1..Len(Stages)
    /\ analysis' = [NotAnalysing EXCEPT
                       !.raisedIn = Stages[analysis.pc], !.exc = exc, !.message = message,
                       !.outcome = AnalysisExcept(exc, message)]
    /\ UNCHANGED analysisOthers

\* lines 177-192: return the features
AnalyzeSyncReturns ==
    /\ analysis.pc = Len(Stages) + 1
    /\ analysis' = [analysis EXCEPT !.pc = 0,
                                    !.outcome = FeaturesReturned(analysis.duration,
                                                                 analysis.bpm)]
    /\ UNCHANGED analysisOthers

\* analyze_audio, line 219: the awaiting caller gets what the work item
\* returned or raised
AnalyzeAudioResumes ==
    /\ analysis.pc = 0
    /\ analysis.outcome # NoAnalysisOutcome
    /\ analysis.awaited = NoAnalysisOutcome
    /\ analysis' = [analysis EXCEPT !.awaited = analysis.outcome]
    /\ UNCHANGED analysisOthers

(***************************************************************************)
(* AdvancedTrackGenerator.                                                 *)
(***************************************************************************)
\* lines 44-58; frame lists have at least 5 frames, so that np.convolve in
\* mode 'same' returns one value per frame
_create_energy_timeline(frame_analyses) ==
    IF frame_analyses = <<>> THEN [i \in 1..100 |-> Float(1, 2)]
    ELSE LET n == Len(frame_analyses)
             tap == FDiv(Float(1, 1), Float(5, 1))
             term(i, j) == IF i + j \in 1..n THEN FMul(frame_analyses[i + j], tap) ELSE 0
             smoothed == [i \in 1..n |->
                            FAdd(FAdd(FAdd(FAdd(term(i, -2), term(i, -1)), term(i, 0)),
                                      term(i, 1)), term(i, 2))]
             min_energy == SeqMin(smoothed, n)
             max_energy == SeqMax(smoothed, n)
         IN  IF max_energy > min_energy
             THEN [i \in 1..n |-> FDiv(FSub(smoothed[i], min_energy),
                                       FSub(max_energy, min_energy))]
             ELSE [i \in 1..n |-> Float(1, 2)]

\* a test that takes an energy of 0.7 for high
HighEnergyAtLeast(energy) == energy >= Float(7, 10)

\* line 98
HighEnergy(energy) == energy > Float(7, 10)

\* a position counted from the end of the song
PositionFromEnd(section_index, total_sections) ==
    FDiv(Float(total_sections - 1 - section_index, 1), Float(total_sections, 1))

\* line 92: position = section_index / total_sections
Position(section_index, total_sections) ==
    FDiv(Float(section_index, 1), Float(total_sections, 1))

\* lines 90-105
_classify_section_type(section_index, total_sections, energy) ==
    LET position == Position(section_index, total_sections)
    IN  IF position < Float(15, 100) THEN "intro"
        ELSE IF position < Float(3, 10) THEN "buildup"
        ELSE IF position < Float(7, 10)
             THEN (IF HighEnergy(energy) THEN "climax" ELSE "development")
        ELSE IF position < Float(9, 10) THEN "finale"
        ELSE "outro"

\* line 66: section_length = duration / num_sections
SectionLength(duration, num_sections) == FDiv(duration, Float(num_sections, 1))

\* lines 60-88; section i of the model is the code's section i - 1
_analyze_song_structure(energy_timeline, bpm, duration) ==
    LET typical_section_length == FMul(Float(16, 1), FDiv(Float(60, 1), bpm))
        num_sections == Max(4, int(FDiv(duration, typical_section_length)))
        section_length == SectionLength(duration, num_sections)
        len == Len(energy_timeline)
        section(i) ==
            LET start_time == FMul(Float(i, 1), section_length)
                end_time == FMul(Float(i + 1, 1), section_length)
                start_idx == int(FMul(FDiv(start_time, duration), Float(len, 1)))
                end_idx == Min(int(FMul(FDiv(end_time, duration), Float(len, 1))), len)
                section_energy == IF start_idx < end_idx
                                  THEN FMean(energy_timeline, start_idx + 1, end_idx)
                                  ELSE Float(1, 2)
            IN  [type |-> _classify_section_type(i, num_sections, section_energy),
                 start_time |-> start_time,
                 end_time |-> end_time,
                 duration |-> section_length,
                 energy |-> section_energy,
                 position |-> FDiv(Float(i, 1), Float(num_sections, 1))]
    IN  [i \in 1..num_sections |-> section(i - 1)]

\* enhanced_models.py lines 5-41: the values of TrackComponentType
TrackComponentType ==
    {"straight", "gentle_curve", "banking_turn", "gentle_hill", "steep_climb",
     "launch_hill", "airtime_hill", "bunny_hop", "gentle_drop", "steep_drop",
     "vertical_drop", "spiral_drop", "curved_drop", "vertical_loop", "horizontal_loop",
     "corkscrew", "cobra_roll", "barrel_roll", "heartline_roll", "double_down",
     "double_up", "s_curve", "helix", "twisted_element", "launch_section", "brake_run",
     "speed_boost", "zero_g_roll", "pretzel_knot", "flying_element"}

\* `"drop" in component_type.value` and the like, by the values that hold the word
Has(word) ==
    CASE word = "drop" -> {"gentle_drop", "steep_drop", "vertical_drop", "spiral_drop",
                           "curved_drop"}
      [] word = "loop" -> {"vertical_loop", "horizontal_loop"}
      [] word = "climb" -> {"steep_climb"}
      [] word = "hill" -> {"gentle_hill", "launch_hill", "airtime_hill"}
      [] word = "turn" -> {"banking_turn"}
      [] word = "curve" -> {"gentle_curve", "s_curve"}
      [] word = "roll" -> {"cobra_roll", "barrel_roll", "heartline_roll", "zero_g_roll"}
      [] word = "launch" -> {"launch_hill", "launch_section"}

\* lines 135-195: random.choice draws from the list, so only its members matter
_get_section_component_pool(section_type, energy) ==
    LET base_pool ==
            CASE section_type = "intro" ->
                     {"gentle_curve", "gentle_hill", "straight", "banking_turn"}
              [] section_type = "buildup" ->
                     {"steep_climb", "launch_hill", "s_curve", "banking_turn", "gentle_drop"}
              [] section_type = "development" ->
                     {"airtime_hill", "bunny_hop", "corkscrew", "banking_turn", "helix",
                      "barrel_roll"}
              [] section_type = "climax" ->
                     {"vertical_drop", "vertical_loop", "cobra_roll", "zero_g_roll",
                      "spiral_drop", "twisted_element"}
              [] section_type = "finale" ->
                     {"launch_section", "double_down", "pretzel_knot", "heartline_roll",
                      "speed_boost"}
              [] section_type = "outro" ->
                     {"gentle_curve", "brake_run", "straight", "gentle_drop"}
    IN  IF energy > Float(8, 10)
        THEN base_pool \cup {"vertical_loop", "vertical_drop", "launch_section"}
        ELSE IF energy > Float(6, 10)
        THEN base_pool \cup {"airtime_hill", "corkscrew", "steep_drop"}
        ELSE base_pool

\* lines 221-271; of audio_properties and effects only fog_density, the one
\* field with bounds, is kept
_generate_component_properties(component_type, energy) ==
    LET e(base, num, den) == FAdd(base, FMul(energy, Float(num, den)))
        physical ==
            IF component_type \in Has("drop")
            THEN Entry("height", -e(Float(20, 1), 180, 1))
                 @@ Entry("g_force", e(Float(2, 1), 3, 1))
                 @@ Entry("speed_modifier", e(Float(12, 10), 8, 10))
            ELSE IF component_type \in Has("loop")
            THEN Entry("height", e(Float(15, 1), 35, 1))
                 @@ Entry("radius", e(Float(8, 1), 22, 1))
                 @@ Entry("g_force", e(Float(3, 1), 25, 10))
                 @@ Entry("inversions", 1)
            ELSE IF component_type \in Has("climb") \cup Has("hill")
            THEN Entry("height", e(Float(10, 1), 90, 1))
                 @@ Entry("g_force", e(Float(8, 10), 7, 10))
                 @@ Entry("speed_modifier", e(Float(6, 10), 4, 10))
            ELSE IF component_type \in Has("turn") \cup Has("curve")
            THEN Entry("banking", FMul(energy, Float(60, 1)))
                 @@ Entry("radius", FAdd(Float(25, 1),
                                         FMul(FSub(Float(1, 1), energy), Float(75, 1))))
                 @@ Entry("g_force", e(Float(15, 10), 1, 1))
            ELSE IF component_type \in Has("roll")
            THEN Entry("twist_angle", Float(360 * (1 + int(FMul(energy, Float(2, 1)))), 1))
                 @@ Entry("g_force", e(Float(2, 1), 2, 1))
                 @@ Entry("inversions", 1 + int(FMul(energy, Float(2, 1))))
            ELSE << >>
    IN  physical
        @@ Entry("fog_density", FMul(energy, Float(4, 10)))
        @@ Entry("energy_threshold", Max(Float(1, 10), FSub(energy, Float(2, 10))))

\* line 218-219
_calculate_base_length(component_type, bpm) == Float(100, 1)

\* lines 206-215: the arguments handed to TrackComponent(...)
ComponentArguments(component_type, energy, bpm, max_length) ==
    Entry("component", component_type)
    @@ Entry("length", Min(_calculate_base_length(component_type, bpm),
                           FMul(max_length, Float(8, 10))))
    @@ _generate_component_properties(component_type, energy)

\* enhanced_models.py lines 62-82: the bounded fields, [ge, le]; inversions is an int
FieldBounds ==
    [length |-> <<Float(10, 1), Float(500, 1)>>,
     height |-> <<-Float(200, 1), Float(300, 1)>>,
     banking |-> <<-Float(90, 1), Float(90, 1)>>,
     g_force |-> <<Float(5, 10), Float(6, 1)>>,
     speed_modifier |-> <<Float(3, 10), Float(3, 1)>>,
     radius |-> <<Float(5, 1), Float(200, 1)>>,
     twist_angle |-> <<-Float(720, 1), Float(720, 1)>>,
     inversions |-> <<0, 5>>,
     energy_threshold |-> <<0, Float(1, 1)>>,
     fog_density |-> <<0, Float(1, 1)>>]

\* the fields that have a default; height and radius default to None
FieldDefaults ==
    [banking |-> 0, g_force |-> Float(1, 1), speed_modifier |-> Float(1, 1),
     twist_angle |-> 0, inversions |-> 0, energy_threshold |-> Float(1, 2),
     fog_density |-> 0]

\* pydantic validation of the given arguments
Validates(arguments) ==
    \A f \in DOMAIN arguments \cap DOMAIN FieldBounds :
        /\ arguments[f] >= FieldBounds[f][1]
        /\ arguments[f] <= FieldBounds[f][2]

\* TrackComponent(...): the model instance, or the ValidationError it raises
TrackComponent(arguments) ==
    IF Validates(arguments)
    THEN [kind |-> "TrackComponent", fields |-> arguments @@ FieldDefaults]
    ELSE [kind |-> "ValidationError",
          fields |-> [f \in {g \in DOMAIN arguments \cap DOMAIN FieldBounds :
                                 \/ arguments[g] < FieldBounds[g][1]
                                 \/ arguments[g] > FieldBounds[g][2]} |-> arguments[f]]]

\* lines 197-216
_create_component(component_type, energy, bpm, max_length) ==
    TrackComponent(ComponentArguments(component_type, energy, bpm, max_length))

\* what generate_track is given: seconds, beats per minute, and the energy
\* of each analysed frame
TrackDurations == {Float(29, 1), Float(48, 1), Float(60, 1), Float(100, 1), Float(180, 1)}
TrackBpms == {Float(30, 1), Float(60, 1), Float(120, 1), Float(232, 1)}
FrameEnergies ==
    {<< >>,
     [i \in 1..8 |-> Float(1, 4)],
     [i \in 1..8 |-> IF i <= 2 THEN 0 ELSE Float(1, 1)]}

NoComponent == [kind |-> "none"]
NotGenerating ==
    [pc |-> "idle", duration |-> 0, bpm |-> 0, frame_energies |-> << >>,
     sections |-> << >>, section |-> 0, remaining_duration |-> 0,
     track_components |-> << >>, component |-> NoComponent]
GenerateTrackCalled(duration, bpm, frame_energies) ==
    [NotGenerating EXCEPT !.pc = "called", !.duration = duration, !.bpm = bpm,
                          !.frame_energies = frame_energies]

\* lines 22-29: the timeline and the sections
AnalyzeSongStructure ==
    /\ trackgen.pc = "called"
    /\ LET sections == _analyze_song_structure(
                           _create_energy_timeline(trackgen.frame_energies),
                           trackgen.bpm, trackgen.duration)
       IN  trackgen' = [trackgen EXCEPT !.pc = "section", !.sections = sections,
                                        !.section = 1,
                                        !.remaining_duration = sections[1].duration]
    /\ UNCHANGED trackOthers

\* lines 117-129: one turn of the while loop; track_components holds the
\* lengths, the one field generate_track reads, and component the last one built
CreateComponent(component_type) ==
    /\ trackgen.pc = "section"
    /\ trackgen.remaining_duration > Float(10, 1)
    /\ LET section == trackgen.sections[trackgen.section]
           component == _create_component(component_type, section.energy, trackgen.bpm,
                                          trackgen.remaining_duration)
       IN  /\ component_type \in _get_section_component_pool(section.type, section.energy)
           /\ trackgen' =
                  IF component.kind = "ValidationError"
                  THEN [trackgen EXCEPT !.pc = "raised", !.component = component]
                  ELSE [trackgen EXCEPT
                           !.component = component,
                           !.track_components = Append(@, component.fields.length),
                           !.remaining_duration = FSub(@, component.fields.length)]
    /\ UNCHANGED trackOthers

\* lines 33-39: the section is used up; go to the next one, or return the track
SectionDone ==
    /\ trackgen.pc = "section"
    /\ trackgen.remaining_duration <= Float(10, 1)
    /\ trackgen' =
           IF trackgen.section < Len(trackgen.sections)
           THEN [trackgen EXCEPT
                    !.section = @ + 1,
                    !.remaining_duration = trackgen.sections[trackgen.section + 1].duration]
           ELSE [trackgen EXCEPT !.pc = "returned"]
    /\ UNCHANGED trackOthers

\* _create_component called on its own
ComponentEnergies == {0, Float(1, 2), Float(7, 10), Float(1, 1)}
ComponentMaxLengths == {Float(11, 1), Float(25, 2), Float(40, 1), Float(200, 1)}
NotCreating ==
    [pc |-> "idle", component_type |-> "none", energy |-> 0, max_length |-> 0,
     component |-> NoComponent]

CreateComponentReturns ==
    /\ created.pc = "called"
    /\ LET component == _create_component(created.component_type, created.energy,
                                          Float(120, 1), created.max_length)
       IN  created' = [created EXCEPT
                          !.pc = IF component.kind = "ValidationError"
                                 THEN "raised" ELSE "returned",
                          !.component = component]
    /\ UNCHANGED createOthers

(***************************************************************************)
(* Functions called on their own, with arguments drawn from small sets.    *)
(***************************************************************************)
MaxSections == 20
SectionEnergies == {0, Float(1, 2), Float(7, 10), Float(7, 10) + 1, Float(1, 1)}

ClassifyCalls ==
    {c \in {Pending("_classify_section_type",
                    [section_index |-> section_index, total_sections |-> total_sections,
                     energy |-> energy]) :
                section_index \in 0..(MaxSections - 1), total_sections \in 1..MaxSections,
                energy \in SectionEnergies} :
        c.args.section_index < c.args.total_sections}

SectionTypes == {"intro", "buildup", "development", "climax", "finale", "outro"}
PoolEnergies ==
    {0, Float(1, 2), Float(6, 10), Float(6, 10) + 1, Float(7, 10), Float(8, 10),
     Float(8, 10) + 1, Float(9, 10), Float(1, 1)}

PoolCalls ==
    {Pending("_get_section_component_pool",
             [section_type |-> section_type, energy |-> energy]) :
         section_type \in SectionTypes, energy \in PoolEnergies}

GetSectionComponentPool ==
    /\ Calling("_get_section_component_pool")
    /\ Returns(_get_section_component_pool(call.args.section_type, call.args.energy))
    /\ UNCHANGED callOthers

\* feature dicts with a duration >= 0 and an energy in [0, 1] (in percent)
FallbackDurations == {0, 60, 96, 200, 239, 240, 400}
FallbackEnergies == {0, 38, 40, 41, 50, 70, 71, 100}
FallbackCalls ==
    {Pending("_procedural_fallback", features) :
         features \in {EmptyFeatures}
                      \cup {[empty |-> FALSE, duration |-> duration, energy |-> energy] :
                                duration \in FallbackDurations, energy \in FallbackEnergies}}

ProceduralFallback ==
    /\ Calling("_procedural_fallback")
    /\ Returns(ProceduralBlueprint(call.args))
    /\ UNCHANGED callOthers

(***************************************************************************)
(* schema/blueprint.py: the constraints of the Blueprint model on a dict.  *)
(***************************************************************************)
\* Optional[float] = Field(None, ge, le): absent, or within the bounds
OptionalWithin(segment, name, ge, le) ==
    name \in DOMAIN segment => (segment[name] >= ge /\ segment[name] <= le)
\* float = Field(..., ge=0.1)
RequiredAtLeastTenth(segment, name) ==
    name \in DOMAIN segment /\ 10 * segment[name] >= Unit

\* lines 9-22
ValidBaseSegment(segment) ==
    /\ OptionalWithin(segment, "intensity", 0, Float(100, 1))
    /\ "audioSyncPoint" \in DOMAIN segment => segment.audioSyncPoint >= 0

\* lines 24-57: the segment validates as the model its component names
ValidTrackSegment(segment) ==
    /\ "component" \in DOMAIN segment
    /\ ValidBaseSegment(segment)
    /\ CASE segment.component \in {"climb", "drop"} ->
                /\ RequiredAtLeastTenth(segment, "length")
                /\ OptionalWithin(segment, "angle", -Float(90, 1), Float(90, 1))
         [] segment.component = "turn" ->
                /\ RequiredAtLeastTenth(segment, "length")
                /\ "direction" \in DOMAIN segment
                /\ segment.direction \in {"left", "right"}
                /\ "angle" \in DOMAIN segment
                /\ OptionalWithin(segment, "angle", -Float(720, 1), Float(720, 1))
                /\ "radius" \in DOMAIN segment => 10 * segment.radius >= Unit
         [] segment.component = "loop" ->
                /\ RequiredAtLeastTenth(segment, "radius")
                /\ "rotations" \in DOMAIN segment => segment.rotations >= Float(1, 1)
         [] segment.component = "barrelRoll" ->
                /\ "rotations" \in DOMAIN segment
                /\ segment.rotations % Unit = 0
                /\ segment.rotations >= Float(1, 1)
                /\ "length" \in DOMAIN segment => 10 * segment.length >= Unit
         [] OTHER -> FALSE

\* lines 91-101: palette and track
ValidBlueprint(blueprint) ==
    /\ Len(blueprint.palette) \in 3..5
    /\ blueprint.track.tag = "list"
    /\ blueprint.track.len \in 12..40
    /\ \A i \in 1..blueprint.track.len : ValidTrackSegment(blueprint.track.segments[i])

\* audio payloads, among them ones that end in the bytes of a serialized dict
KeyAudio == Audio \cup {<<1, ItemByte(<<1, 1>>)>>, <<2, 1>>}
KeyCalls ==
    {Pending("_generate_cache_key", [audio_bytes |-> audio_bytes, options |-> options]) :
         audio_bytes \in KeyAudio, options \in Options}

GenerateCacheKey ==
    /\ Calling("_generate_cache_key")
    /\ Returns(_generate_cache_key(call.args.audio_bytes, call.args.options))
    /\ UNCHANGED callOthers

ClassifySectionType ==
    /\ Calling("_classify_section_type")
    /\ Returns(_classify_section_type(call.args.section_index,
                                      call.args.total_sections, call.args.energy))
    /\ UNCHANGED callOthers

(***************************************************************************)
(* models/behavior_tree.py.  A node is a record of its class and its       *)
(* constructor arguments; a tick returns the status and the blackboard.    *)
(***************************************************************************)
SUCCESS == "SUCCESS"
FAILURE == "FAILURE"
RUNNING == "RUNNING"

Sequence(children) == [class |-> "Sequence", children |-> children]
Selector(children) == [class |-> "Selector", children |-> children]
Inverter(child) == [class |-> "Inverter", child |-> child]
SelectGeneratorAction(generator_name) ==
    [class |-> "SelectGeneratorAction", generator_name |-> generator_name]
IsEnergyAbove(threshold) == [class |-> "IsEnergyAbove", threshold |-> threshold]

\* Blackboard(): an empty dict; set(key, value)
Blackboard == << >>
BlackboardSet(blackboard, key, value) == Entry(key, value) @@ blackboard

\* context.audio_features.get('energy', 0), the energy in percent
GetEnergy(audio_features) ==
    IF "energy" \in DOMAIN audio_features THEN audio_features.energy ELSE 0

Ticked(status, blackboard) == [status |-> status, blackboard |-> blackboard]

\* a condition that also holds at the threshold
EnergyAtLeast(avg_energy, threshold) == avg_energy >= threshold

\* line 113: avg_energy > self.threshold
EnergyAbove(avg_energy, threshold) == avg_energy > threshold

RECURSIVE TickNode(_, _, _)
RECURSIVE TickSequence(_, _, _, _)
RECURSIVE TickSelector(_, _, _, _)

RECURSIVE TickSequenceThrough(_, _, _, _)
\* a Sequence that goes on ticking the children after the deciding one
TickSequenceThrough(children, k, audio_features, blackboard) ==
    IF k > Len(children) THEN Ticked(SUCCESS, blackboard)
    ELSE LET t == TickNode(children[k], audio_features, blackboard)
             rest == TickSequenceThrough(children, k + 1, audio_features, t.blackboard)
         IN  IF t.status # SUCCESS THEN Ticked(t.status, rest.blackboard) ELSE rest

\* Sequence.tick from child k on: the first status that is not SUCCESS
TickSequence(children, k, audio_features, blackboard) ==
    IF k > Len(children) THEN Ticked(SUCCESS, blackboard)
    ELSE LET t == TickNode(children[k], audio_features, blackboard)
         IN  IF t.status # SUCCESS THEN t
             ELSE TickSequence(children, k + 1, audio_features, t.blackboard)

\* Selector.tick from child k on: the first status that is not FAILURE
TickSelector(children, k, audio_features, blackboard) ==
    IF k > Len(children) THEN Ticked(FAILURE, blackboard)
    ELSE LET t == TickNode(children[k], audio_features, blackboard)
         IN  IF t.status # FAILURE THEN t
             ELSE TickSelector(children, k + 1, audio_features, t.blackboard)

\* node.tick(context)
TickNode(node, audio_features, blackboard) ==
    CASE node.class = "Sequence" -> TickSequence(node.children, 1, audio_features, blackboard)
      [] node.class = "Selector" -> TickSelector(node.children, 1, audio_features, blackboard)
      [] node.class = "Inverter" ->
             LET t == TickNode(node.child, audio_features, blackboard)
             IN  IF t.status = SUCCESS THEN Ticked(FAILURE, t.blackboard)
                 ELSE IF t.status = FAILURE THEN Ticked(SUCCESS, t.blackboard)
                 ELSE t
      [] node.class = "SelectGeneratorAction" ->
             Ticked(SUCCESS, BlackboardSet(blackboard, "selected_generator",
                                           node.generator_name))
      [] node.class = "IsEnergyAbove" ->
             IF EnergyAbove(GetEnergy(audio_features), node.threshold)
             THEN Ticked(SUCCESS, blackboard)
             ELSE Ticked(FAILURE, blackboard)

\* the tree that selects a generator by the energy, and other trees over one
\* threshold
EnergyTree(threshold) ==
    Selector(<<Sequence(<<IsEnergyAbove(threshold), SelectGeneratorAction("drop")>>),
               SelectGeneratorAction("climb")>>)
Trees(threshold) ==
    {EnergyTree(threshold),
     Sequence(<<IsEnergyAbove(threshold), SelectGeneratorAction("drop")>>),
     Selector(<<Sequence(<<SelectGeneratorAction("drop"), IsEnergyAbove(threshold)>>),
                SelectGeneratorAction("climb")>>),
     Sequence(<<Inverter(IsEnergyAbove(threshold)), SelectGeneratorAction("climb")>>),
     Selector(<<IsEnergyAbove(threshold), Inverter(SelectGeneratorAction("drop"))>>)}
Thresholds == {0, 50, 80, 100}
TreeFeatures == {<< >>} \cup {[energy |-> energy] : energy \in {0, 30, 50, 80, 100}}

NoTree ==
    [pc |-> "idle", root |-> Sequence(<< >>), threshold |-> 0, audio_features |-> << >>,
     blackboard |-> Blackboard, status |-> "none"]

\* status = tree.tick(Context(blackboard, audio_features))
TickTree ==
    /\ tree.pc = "built"
    /\ LET t == TickNode(tree.root, tree.audio_features, tree.blackboard)
       IN  tree' = [tree EXCEPT !.pc = "ticked", !.status = t.status,
                                !.blackboard = t.blackboard]
    /\ UNCHANGED treeOthers

(***************************************************************************)
(* api/endpoints.py: validate_audio_file and the generate_blueprint        *)
(* endpoint.  A MIME type is the sequence of its characters; the file is   *)
(* read in chunks of at most chunk_size bytes.                             *)
(***************************************************************************)
MAX_FILE_SIZE == 2
chunk_size == 2
FileSizes == 0..(MAX_FILE_SIZE + chunk_size + 1)

AudioMpeg == <<"a", "u", "d", "i", "o", "/", "m", "p", "e", "g">>
AudioWav == <<"a", "u", "d", "i", "o", "/", "w", "a", "v">>
AudioXWav == <<"a", "u", "d", "i", "o", "/", "x", "-", "w", "a", "v">>
AudioOgg == <<"a", "u", "d", "i", "o", "/", "o", "g", "g">>
AudioFlac == <<"a", "u", "d", "i", "o", "/", "f", "l", "a", "c">>
AudioMp3 == <<"a", "u", "d", "i", "o", "/", "m", "p", "3">>
AudioMPEG == <<"a", "u", "d", "i", "o", "/", "M", "P", "E", "G">>
AudioWavCapital == <<"A", "u", "d", "i", "o", "/", "W", "a", "v">>
TextPlain == <<"t", "e", "x", "t", "/", "p", "l", "a", "i", "n">>
XEmpty == <<"a", "p", "p", "l", "i", "c", "a", "t", "i", "o", "n", "/", "x", "-", "e", "m", "p", "t", "y">>
NoContentType == << >>

\* settings.py line 37
ALLOWED_MIME_TYPES == {AudioMpeg, AudioWav, AudioXWav, AudioOgg, AudioFlac}

\* the declared types of the uploads, and the types libmagic detects
DeclaredTypes ==
    {NoContentType, AudioMpeg, AudioMPEG, AudioWavCapital, AudioXWav, AudioMp3, TextPlain}
DetectedTypes == {AudioMpeg, AudioXWav, TextPlain, XEmpty}

\* the letters that occur in upper case, with their lower case
UpperCase == [A |-> "a", W |-> "w", M |-> "m", P |-> "p", E |-> "e", G |-> "g"]

\* a comparison that leaves the case as it is
LowerKeepsCase(content_type) == content_type

\* str.lower()
Lower(content_type) ==
    [i \in 1..Len(content_type) |->
        IF content_type[i] \in DOMAIN UpperCase THEN UpperCase[content_type[i]]
        ELSE content_type[i]]

\* line 33: the declared type is missing or, in lower case, not allowed
Unsupported(content_type) ==
    content_type = NoContentType \/ Lower(content_type) \notin ALLOWED_MIME_TYPES

NoResponse == [status_code |-> 0, detail |-> ""]
Response(status_code, detail) == [status_code |-> status_code, detail |-> detail]

NoUpload ==
    [pc |-> "idle", content_type |-> NoContentType, size |-> 0, offset |-> 0,
     reads |-> 0, total_size |-> 0, audio_bytes |-> 0, service_calls |-> 0,
     response |-> NoResponse]

UploadEnds(response) == upload' = [upload EXCEPT !.pc = "done", !.response = response]

\* lines 33-35
CheckContentType ==
    /\ upload.pc = "called"
    /\ IF Unsupported(upload.content_type)
       THEN UploadEnds(Response(400, "Unsupported file format"))
       ELSE upload' = [upload EXCEPT !.pc = "read"]
    /\ UNCHANGED uploadOthers

\* UploadFile.read(chunk_size): the length of the chunk read at an offset
ReadLen(size, offset) == Min(chunk_size, size - offset)

\* a limit that lets one byte more through
ExceedsLimitByTwo(total_size, max_size) == total_size > max_size + 1

\* line 44
ExceedsLimit(total_size, max_size) == total_size > max_size

\* lines 42-46: one non-empty chunk is read and counted, the request ends
\* with 413 if the count went over the limit, and else the chunk is buffered
\* (upload.audio_bytes is the length of the buffer)
ReadChunk ==
    /\ upload.pc = "read"
    /\ ReadLen(upload.size, upload.offset) > 0
    /\ LET chunk == ReadLen(upload.size, upload.offset)
           total_size == upload.total_size + chunk
           read == [upload EXCEPT !.offset = @ + chunk, !.reads = @ + 1,
                                  !.total_size = total_size]
       IN  IF ExceedsLimit(total_size, MAX_FILE_SIZE)
           THEN upload' = [read EXCEPT
                    !.pc = "done",
                    !.response = Response(413, "File size exceeds limit during streaming")]
           ELSE upload' = [read EXCEPT !.audio_bytes = @ + chunk]
    /\ UNCHANGED uploadOthers

\* lines 49-51: the file is read to its end; libmagic names its type
MagicFromBuffer(detected_mime) ==
    /\ upload.pc = "read"
    /\ ReadLen(upload.size, upload.offset) = 0
    /\ (upload.audio_bytes = 0) = (detected_mime = XEmpty)
    /\ IF detected_mime \notin ALLOWED_MIME_TYPES
       THEN UploadEnds(Response(400, "File content mismatch"))
       ELSE upload' = [upload EXCEPT !.pc = "load"]
    /\ UNCHANGED uploadOthers

\* lines 54-70: librosa loads one second of it, or fails
LibrosaLoad(loaded) ==
    /\ upload.pc = "load"
    /\ IF loaded THEN upload' = [upload EXCEPT !.pc = "options"]
       ELSE UploadEnds(Response(400, "Invalid audio file"))
    /\ UNCHANGED uploadOthers

\* lines 99-111: the options parse, or not; then the service is called with
\* the declared content type
CallService(options_valid) ==
    /\ upload.pc = "options"
    /\ IF options_valid
       THEN upload' = [upload EXCEPT !.pc = "service", !.service_calls = @ + 1]
       ELSE UploadEnds(Response(400, "Invalid JSON in options field"))
    /\ UNCHANGED uploadOthers

\* lines 111-115: the service returns a result or raises its HTTPException
ServiceReturns(status_code) ==
    /\ upload.pc = "service"
    /\ UploadEnds(Response(status_code,
                           IF status_code = 200 THEN "result"
                           ELSE IF status_code = 413 THEN "Response too large"
                           ELSE "Failed to generate blueprint"))
    /\ UNCHANGED uploadOthers

SvcInit ==
    /\ cache = <<>>
    /\ req = [r \in Req |-> IdleReq]
    /\ event = NoEvent
    /\ stored = [k \in Keys |-> NotStored]

ExecIdle ==
    /\ caller = [c \in Callers |-> "idle"]
    /\ workQueue = <<>>

UnitsIdle ==
    /\ analysis = NotAnalysing
    /\ trackgen = NotGenerating
    /\ created = NotCreating
    /\ tree = NoTree
    /\ upload = NoUpload
    /\ call = NoCall

Init ==
    /\ sdk \in {"ok", "no_key", "no_sdk"}
    /\ SvcInit
    /\ cpuCount = 0
    /\ ExecIdle
    /\ UnitsIdle

Next ==
    \/ \E r \in Req, i \in Inputs : Begin(r, i.audio, i.ctype, i.options)
    \/ \E r \in Req : AnalysisReturns(r)
    \/ \E r \in Req, status_code \in AnalysisStatuses : AnalysisRaises(r, status_code)
    \/ \E r \in Req : UploadReturns(r)
    \/ \E r \in Req, exc \in GeneratorErrors : UploadRaises(r, exc)
    \/ \E r \in Req : DeleteReturns(r)
    \/ \E r \in Req : TimeLimitPasses(r)
    \/ \E r \in Req, kind \in ResponseKinds : GeneratorReturns(r, kind)
    \/ \E r \in Req, exc \in GeneratorErrors : GeneratorRaises(r, exc)
    \/ Tick

Spec == Init /\ [][Next]_vars

CpuCounts == {0, 1, 2, MaxCpu}

ExecInit ==
    /\ sdk = "ok"
    /\ SvcInit
    /\ cpuCount \in CpuCounts
    /\ ExecIdle
    /\ UnitsIdle

ExecNext ==
    \/ \E c \in Callers : Submit(c)
    \/ WorkerStarts
    \/ \E c \in Callers : WorkerReturns(c)
    \/ \E c \in Callers : WorkerRaises(c)
    \/ \E c \in Callers : Resume(c)

ExecSpec == ExecInit /\ [][ExecNext]_vars

AnalysisInit ==
    /\ sdk = "ok"
    /\ SvcInit
    /\ cpuCount = 0
    /\ ExecIdle
    /\ analysis = AnalysisStart
    /\ trackgen = NotGenerating
    /\ created = NotCreating
    /\ tree = NoTree
    /\ upload = NoUpload
    /\ call = NoCall

AnalysisNext ==
    \/ \E decoded \in Durations : LoadReturns(decoded)
    \/ \E tempo \in Tempos : BeatTrackReturns(tempo)
    \/ StageReturns
    \/ \E exc \in AnalysisErrors, message \in Messages : StageRaises(exc, message)
    \/ AnalyzeSyncReturns
    \/ AnalyzeAudioResumes

AnalysisSpec == AnalysisInit /\ [][AnalysisNext]_vars

TrackInit ==
    /\ sdk = "ok"
    /\ SvcInit
    /\ cpuCount = 0
    /\ ExecIdle
    /\ analysis = NotAnalysing
    /\ created = NotCreating
    /\ tree = NoTree
    /\ upload = NoUpload
    /\ call = NoCall
    /\ \E duration \in TrackDurations, bpm \in TrackBpms, frame_energies \in FrameEnergies :
           trackgen = GenerateTrackCalled(duration, bpm, frame_energies)

TrackNext ==
    \/ AnalyzeSongStructure
    \/ \E component_type \in TrackComponentType : CreateComponent(component_type)
    \/ SectionDone

TrackSpec == TrackInit /\ [][TrackNext]_vars

ComponentInit ==
    /\ sdk = "ok"
    /\ SvcInit
    /\ cpuCount = 0
    /\ ExecIdle
    /\ analysis = NotAnalysing
    /\ trackgen = NotGenerating
    /\ tree = NoTree
    /\ upload = NoUpload
    /\ call = NoCall
    /\ \E component_type \in TrackComponentType, energy \in ComponentEnergies,
          max_length \in ComponentMaxLengths :
           created = [NotCreating EXCEPT !.pc = "called",
                                         !.component_type = component_type,
                                         !.energy = energy, !.max_length = max_length]

ComponentNext == CreateComponentReturns

ComponentSpec == ComponentInit /\ [][ComponentNext]_vars

TreeInit ==
    /\ sdk = "ok"
    /\ SvcInit
    /\ cpuCount = 0
    /\ ExecIdle
    /\ analysis = NotAnalysing
    /\ trackgen = NotGenerating
    /\ created = NotCreating
    /\ upload = NoUpload
    /\ call = NoCall
    /\ \E threshold \in Thresholds, audio_features \in TreeFeatures :
           \E root \in Trees(threshold) :
               tree = [NoTree EXCEPT !.pc = "built", !.root = root,
                                     !.threshold = threshold,
                                     !.audio_features = audio_features]

TreeNext == TickTree

TreeSpec == TreeInit /\ [][TreeNext]_vars

UploadInit ==
    /\ sdk = "ok"
    /\ SvcInit
    /\ cpuCount = 0
    /\ ExecIdle
    /\ analysis = NotAnalysing
    /\ trackgen = NotGenerating
    /\ created = NotCreating
    /\ tree = NoTree
    /\ \E content_type \in DeclaredTypes, size \in FileSizes :
           upload = [NoUpload EXCEPT !.pc = "called", !.content_type = content_type,
                                     !.size = size]
    /\ call = NoCall

UploadNext ==
    \/ CheckContentType
    \/ ReadChunk
    \/ \E detected_mime \in DetectedTypes : MagicFromBuffer(detected_mime)
    \/ \E loaded \in {TRUE, FALSE} : LibrosaLoad(loaded)
    \/ \E options_valid \in {TRUE, FALSE} : CallService(options_valid)
    \/ \E status_code \in {200, 413, 500} : ServiceReturns(status_code)

UploadSpec == UploadInit /\ [][UploadNext]_vars

CallInit ==
    /\ sdk = "ok"
    /\ SvcInit
    /\ cpuCount = 0
    /\ ExecIdle
    /\ analysis = NotAnalysing
    /\ trackgen = NotGenerating
    /\ created = NotCreating
    /\ tree = NoTree
    /\ upload = NoUpload
    /\ call \in ClassifyCalls \cup PoolCalls \cup FallbackCalls \cup KeyCalls

CallNext ==
    \/ ClassifySectionType
    \/ GetSectionComponentPool
    \/ ProceduralFallback
    \/ GenerateCacheKey

CallSpec == CallInit /\ [][CallNext]_vars

(***************************************************************************)
(* Properties.  The call an event shows is event.call; Hit says the event  *)
(* is a call that returned from the cache.                                 *)
(***************************************************************************)
ReturnedCall == event.ev = "returned"
ReturnedResult == ReturnedCall /\ event.outcome.kind = "result"
Hit == ReturnedResult /\ event.outcome.via = "cache"

\* options that _generate_cache_key does not tell apart: both falsy, or dicts
\* with the same items
EquivalentOptions(o1, o2) ==
    \/ ~Truthy(o1) /\ ~Truthy(o2)
    \/ Truthy(o1) /\ Truthy(o2) /\ AsMapping(o1) = AsMapping(o2)

\* C1: every result generate_blueprint returns, and every result it caches,
\* holds a blueprint whose track is present and non-empty.
C1_TrackNeverEmpty ==
    /\ ReturnedResult => TrackNonEmpty(event.outcome.result)
    /\ \A i \in 1..Len(cache) : TrackNonEmpty(cache[i].value)

\* C2: a call whose feature extraction succeeded and whose candidate step
\* failed returns a result: the procedural fallback blueprint ('Procedural
\* Ride', non-empty track) together with the extracted features.
C2_FallbackAfterCandidateFailure ==
    (ReturnedCall /\ Did(event.call, "extract_ok") /\ Did(event.call, "candidate_fail"))
        => /\ event.outcome.kind = "result"
           /\ event.outcome.via = "fallback"
           /\ Did(event.call, "fallback")
           /\ event.outcome.result.blueprint.rideName = "Procedural Ride"
           /\ TrackNonEmpty(event.outcome.result)
           /\ ~event.outcome.result.features.empty
           /\ event.outcome.result.features = AudioFeatures(event.call.audio)

\* a call on a configured service whose generate_content failed returned the fallback
C2_Witness ==
    /\ ReturnedResult /\ sdk = "ok"
    /\ Did(event.call, "generate") /\ Did(event.call, "candidate_fail")
    /\ event.outcome.via = "fallback"

\* C3: a call whose feature extraction failed ends in an error: it returns no
\* result and has run neither the candidate step nor the fallback.
C3_ExtractionFailureIsFatal ==
    (ReturnedCall /\ Did(event.call, "extract_fail"))
        => /\ event.outcome.kind = "error"
           /\ ~Did(event.call, "candidate")
           /\ ~Did(event.call, "fallback")

RanOnceOrNever ==
    /\ (ReturnedResult /\ event.outcome.via = "generator")
           => Count(event.call, "extract") = 1 /\ Count(event.call, "generate") = 1
    /\ Hit => event.call.steps = <<>>

\* C5 as stated: a call on a key under which a result was written less than a
\* TTL ago returns that result from the cache and runs neither the analysis nor
\* generate_content.
C5_StoredUntilExpiry ==
    /\ event.ctx.keyLive => Hit /\ event.outcome.result = event.ctx.keyValue
    /\ RanOnceOrNever

\* C5: a call on a key under which a result was written less than a TTL ago,
\* and not evicted since, returns that result from the cache and runs neither
\* the analysis nor generate_content; the call that wrote it ran each once.
C5_StoredUntilEvicted ==
    /\ event.ctx.keyKept => Hit /\ event.outcome.result = event.ctx.keyValue
    /\ Hit => event.ctx.keyKept
    /\ RanOnceOrNever
    /\ \A k \in Keys :
           (stored[k].set /\ ~stored[k].evicted)
               <=> (CacheContains(cache, k) /\ CacheValue(cache, k) = stored[k].value)

\* a call returned the stored result of an earlier call that was not the one before it
C5_Witness ==
    /\ Hit /\ event.ctx.keyKept /\ ~event.ctx.afterSame
    /\ event.outcome.result = event.ctx.keyValue
    /\ event.call.steps = <<>>

KeyDependsOnAudioAndOptions ==
    \A i, j \in AllInputs :
        i.audio = j.audio
            => (KeyOf(i) = KeyOf(j) <=> EquivalentOptions(i.options, j.options))

WrittenBy(result, w) ==
    /\ result.features = AudioFeatures(w.audio)
    /\ \E kind \in ResponseKinds :
           result.blueprint = WithGenerationOptions(ResponseBlueprint(kind), w.options)

\* C11: every value in blueprint_cache, and every value a call reads from it, is
\* the complete result (blueprint and features) that one request wrote under
\* that key; after a request has written, the cache holds its result, also when
\* another request had written under the same key before it.
C11_WholeEntriesLastWriteWins ==
    /\ \A i \in 1..Len(cache) :
           /\ stored[cache[i].key].set
           /\ KeyOf(stored[cache[i].key].writer) = cache[i].key
           /\ WrittenBy(cache[i].value, stored[cache[i].key].writer)
    /\ Hit => WrittenBy(event.outcome.result, event.ctx.writer)
    /\ (ReturnedResult /\ event.outcome.via = "generator")
           => /\ CacheContains(cache, KeyOf(event.call))
              /\ CacheValue(cache, KeyOf(event.call)) = event.outcome.result

\* two requests missed on one key and both wrote: the later write replaced a
\* different result of the earlier one, and the cache holds the later result
C11_Witness ==
    /\ ReturnedResult /\ event.outcome.via = "generator"
    /\ event.replaced.set /\ ~event.replaced.evicted
    /\ event.replaced.value # event.outcome.result
    /\ KeyOf(event.replaced.writer) = KeyOf(event.call)
    /\ CacheValue(cache, KeyOf(event.call)) = event.outcome.result

\* C7: in every call the steps come in the order extraction, candidate
\* generation, fallback: each at most once, the candidate step only after the
\* extraction has succeeded, the fallback only after the candidate step has
\* failed and never after it succeeded.
C7_StepOrder ==
    \A q \in CallsShown :
        /\ \A s \in {"extract", "candidate", "fallback"} : Count(q, s) <= 1
        /\ Did(q, "candidate") => Before(q, "extract_ok", "candidate")
        /\ Did(q, "fallback") => Before(q, "candidate_fail", "fallback")
        /\ ~(Did(q, "candidate_ok") /\ Did(q, "fallback"))

\* C8: a call whose generate_content outlived the time allowed for the
\* candidate step returns the fallback blueprint, with a non-empty track.
C8_TimeoutFallsBack ==
    (ReturnedCall /\ Did(event.call, "overdue"))
        => /\ event.outcome.kind = "result"
           /\ event.outcome.via = "fallback"
           /\ TrackNonEmpty(event.outcome.result)

\* C9: the analysis tasks queued or running never exceed the admission bound.
C9_AdmissionBounded ==
    Cardinality(Queued) + Cardinality(Running) <= AdmissionBound

\* C10 as stated: the running analyses never exceed the pool size, and the pool
\* size is between 1 and 8 for every CPU count.
C10_PoolBetween1And8 ==
    /\ Cardinality(Running) <= WORKERS
    /\ 1 <= WORKERS /\ WORKERS <= 8

\* C10: the running analyses never exceed the pool size, and the pool size is
\* the CPU count, or 4 when the count is unknown: at least 1, with no upper cap.
C10_PoolIsCpuCount ==
    /\ Cardinality(Running) <= WORKERS
    /\ 1 <= WORKERS
    /\ cpuCount = 0 => WORKERS = DefaultWorkers
    /\ cpuCount > 0 => WORKERS = cpuCount

\* every worker is running an analysis and a work item waits in the queue
C10_Witness ==
    /\ Cardinality(Running) = WORKERS
    /\ workQueue # <<>>


\* C12: when a call after the decode raises (tempo estimation, harmonic and
\* percussive separation, key detection, onsets and tempo curve, structural
\* segmentation), _analyze_audio_sync still returns the features, with the
\* failed feature at its default; only a decode failure makes it raise.
C12_SubFeatureFailureDoesNotAbort ==
    (analysis.raisedIn \notin {"none", "load"})
        => /\ analysis.outcome.kind = "features"
           /\ analysis.outcome.keys = FeatureKeys

\* C13: whatever librosa.load raises, _analyze_audio_sync reports it with
\* 'Failed to decode audio: <message>', and analyze_audio surfaces it as an
\* HTTP error with status 400 whose detail holds the message.
C13_DecodeFailureIs400WithMessage ==
    (analysis.raisedIn = "load" /\ analysis.awaited # NoAnalysisOutcome)
        => /\ analysis.outcome.detail = <<"Failed to decode audio: ", analysis.message>>
           /\ analysis.awaited.kind = "HTTPException"
           /\ analysis.awaited.status_code = 400
           /\ \E i \in 1..Len(analysis.awaited.detail) :
                  analysis.awaited.detail[i] = analysis.message


\* C14: the sections of _analyze_song_structure are in time order, the first
\* starts at 0, the last ends at the duration, and every section ends where
\* the next one starts: they tile [0, duration) with no gap and no overlap.
C14_SectionsTileDuration ==
    (trackgen.pc # "idle" /\ trackgen.pc # "called")
        => LET sections == trackgen.sections
               n == Len(sections)
           IN  /\ n > 0
               /\ sections[1].start_time = 0
               /\ sections[n].end_time = trackgen.duration
               /\ \A i \in 1..n : sections[i].start_time < sections[i].end_time
               /\ \A i \in 1..(n - 1) : sections[i].end_time = sections[i + 1].start_time

\* C15: generate_track returns a non-empty list of components for every
\* positive duration and bpm, also when no section is longer than 10.
C15_TrackNonEmpty ==
    /\ trackgen.pc # "raised"
    /\ trackgen.pc = "returned" => Len(trackgen.track_components) > 0

\* C16: for every component type, every energy in [0, 1] and every remaining
\* duration above 10, the component of _create_component is within all the
\* numeric bounds of TrackComponent, so that building it never fails.
C16_ComponentWithinBounds ==
    (created.pc \notin {"idle", "called"})
        => /\ created.pc = "returned"
           /\ Validates(created.component.fields)


\* C17: every component in the track of a blueprint returned by the fallback
\* path has a component type tag and a numeric length.
C17_FallbackComponentsHaveLength ==
    (ReturnedResult /\ event.outcome.via = "fallback")
        => LET track == event.outcome.result.blueprint.track
           IN  \A i \in 1..track.len :
                   {"component", "length"} \subseteq DOMAIN track.segments[i]

\* every pair of fallback returns, over all requests, exceptions and service
\* configurations: equal features give equal blueprints
FallbackDependsOnFeaturesOnly ==
    \A i \in AllInputs, j \in AllInputs, fi \in {TRUE, FALSE}, fj \in {TRUE, FALSE},
       ei \in GeneratorErrors, ej \in GeneratorErrors, config \in {"ok", "no_key", "no_sdk"} :
        LET Call(k, extracted) ==
                [IdleReq EXCEPT !.audio = k.audio, !.ctype = k.ctype, !.options = k.options,
                                !.features = IF extracted THEN AudioFeatures(k.audio)
                                             ELSE EmptyFeatures]
            oi == HandleException(Call(i, fi), ei, config)
            oj == HandleException(Call(j, fj), ej, config)
        IN  (oi.kind = "result" /\ oj.kind = "result"
             /\ oi.result.features = oj.result.features)
                => oi.result.blueprint = oj.result.blueprint

\* C18: the blueprint of a call that ended in the fallback path is the
\* procedural fallback of its features and carries nothing of the options:
\* equal features give equal fallback blueprints, whatever the options were.
C18_FallbackIgnoresOptions ==
    /\ FallbackDependsOnFeaturesOnly
    /\ (ReturnedResult /\ event.outcome.via = "fallback")
           => /\ event.outcome.result.blueprint
                     = _procedural_fallback(event.outcome.result.features)
              /\ ~event.outcome.result.blueprint.hasOptions
              /\ \A options \in Options :
                     HandleException([event.call EXCEPT !.options = options], "APIError", sdk)
                         = event.outcome

\* a call that carried non-empty options ended in the fallback path
C18_Witness ==
    /\ ReturnedResult /\ event.outcome.via = "fallback"
    /\ Truthy(event.call.options)
    /\ ~event.call.features.empty


\* C19: the tree Selector[Sequence[IsEnergyAbove(t), SelectGeneratorAction('drop')],
\* SelectGeneratorAction('climb')], ticked once on a fresh blackboard, returns
\* SUCCESS and leaves selected_generator = 'drop' exactly when the energy of
\* the audio features is strictly greater than t, and 'climb' otherwise.
C19_EnergySelectsGenerator ==
    (tree.pc = "ticked" /\ tree.root = EnergyTree(tree.threshold))
        => /\ tree.status = SUCCESS
           /\ "selected_generator" \in DOMAIN tree.blackboard
           /\ tree.blackboard["selected_generator"]
                  = IF GetEnergy(tree.audio_features) > tree.threshold
                    THEN "drop" ELSE "climb"

\* the tree was ticked on features whose energy is exactly the threshold
C19_Witness ==
    /\ tree.pc = "ticked" /\ tree.root = EnergyTree(tree.threshold)
    /\ "energy" \in DOMAIN tree.audio_features
    /\ tree.audio_features.energy = tree.threshold
    /\ tree.threshold > 0
    /\ tree.blackboard["selected_generator"] = "climb"


\* the declared type is an allowed type up to the case of its letters
AllowedIgnoringCase(content_type) ==
    \E allowed \in ALLOWED_MIME_TYPES :
        /\ Len(allowed) = Len(content_type)
        /\ \A i \in 1..Len(allowed) :
               \/ content_type[i] = allowed[i]
               \/ /\ content_type[i] \in DOMAIN UpperCase
                  /\ UpperCase[content_type[i]] = allowed[i]

\* C20: once validate_audio_file has checked the declared content type, the
\* upload is rejected with 400 'Unsupported file format' exactly when the type
\* is missing or is not an allowed type in lower case ('audio/mp3' is not
\* allowed, 'audio/MPEG' is not rejected); a rejected upload never reaches
\* the blueprint service.
C20_UnsupportedExactlyWhenNotAllowed ==
    /\ AudioMp3 \notin ALLOWED_MIME_TYPES
    /\ upload.pc \notin {"idle", "called"}
           => /\ (upload.response = Response(400, "Unsupported file format"))
                     = (upload.content_type = NoContentType
                        \/ ~AllowedIgnoringCase(upload.content_type))
              /\ upload.content_type = AudioMPEG
                     => upload.response # Response(400, "Unsupported file format")
              /\ upload.content_type = AudioMp3
                     => upload.response = Response(400, "Unsupported file format")
    /\ upload.service_calls > 0
           => /\ upload.content_type # NoContentType
              /\ AllowedIgnoringCase(upload.content_type)
    /\ upload.response = Response(400, "Unsupported file format")
           => upload.service_calls = 0

\* an upload declared as 'audio/MPEG' passed the check and reached the service
C20_Witness ==
    /\ upload.content_type = AudioMPEG
    /\ upload.service_calls = 1


\* C21: an upload with an allowed content type and more than MAX_FILE_SIZE
\* bytes ends with 413 'File size exceeds limit during streaming' at the
\* first chunk that takes the count over the limit: no chunk is read after
\* it, the buffer never holds more than MAX_FILE_SIZE bytes, and the
\* blueprint service is never called for it.
C21_TooLargeIs413 ==
    /\ upload.audio_bytes <= MAX_FILE_SIZE
    /\ (~Unsupported(upload.content_type) /\ upload.size > MAX_FILE_SIZE)
           => /\ upload.service_calls = 0
              /\ upload.pc \in {"called", "read", "done"}
              /\ upload.total_size <= MAX_FILE_SIZE => upload.pc # "done"
              /\ upload.pc = "done"
                     => /\ upload.response =
                               Response(413, "File size exceeds limit during streaming")
                        /\ upload.total_size > MAX_FILE_SIZE
                        /\ upload.total_size - upload.audio_bytes <= chunk_size
                        /\ upload.offset = upload.total_size
    /\ upload.response = Response(413, "File size exceeds limit during streaming")
           => upload.size > MAX_FILE_SIZE

\* an upload larger than the limit by more than one chunk was cut off with
\* 413 after the second chunk, with bytes of the file still unread
C21_Witness ==
    /\ upload.pc = "done"
    /\ upload.response = Response(413, "File size exceeds limit during streaming")
    /\ upload.reads = 2
    /\ upload.offset < upload.size
    /\ upload.audio_bytes = MAX_FILE_SIZE


\* C22: for a payload above SIZE_THRESHOLD the uploaded remote file is
\* deleted only after the generate_content call that refers to it has ended
\* (with a response or an exception): no call shows a delete that was not
\* preceded by the end of its generate_content, and a call that left
\* generate_blueprint after a successful upload shows exactly one delete.
C22_DeleteOnlyAfterGenerate ==
    \A q \in CallsShown :
        /\ Did(q, "delete")
               => \/ Before(q, "candidate_ok", "delete")
                  \/ Before(q, "candidate_fail", "delete")
        /\ (q.pc = "done" /\ Before(q, "upload", "generate"))
               => Count(q, "delete") = 1


\* the label of a position section_index / total_sections in exact arithmetic
LabelAt(section_index, total_sections, high) ==
    IF 100 * section_index < 15 * total_sections THEN "intro"
    ELSE IF 10 * section_index < 3 * total_sections THEN "buildup"
    ELSE IF 10 * section_index < 7 * total_sections
         THEN (IF high THEN "climax" ELSE "development")
    ELSE IF 10 * section_index < 9 * total_sections THEN "finale"
    ELSE "outro"

\* C23: _classify_section_type labels section i of n by p = i / n: intro if
\* p < 0.15, buildup if 0.15 <= p < 0.30, for 0.30 <= p < 0.70 climax if the
\* energy is strictly above 0.7 and development otherwise, finale if
\* 0.70 <= p < 0.90, outro if p >= 0.90; outside the 0.30-0.70 band every
\* energy gives the same label.
C23_ClassifyByPosition ==
    HasReturned("_classify_section_type")
        => LET i == call.args.section_index
               n == call.args.total_sections
               energy == call.args.energy
           IN  /\ call.result = LabelAt(i, n, 10 * energy > 7 * Unit)
               /\ (10 * i < 3 * n \/ 10 * i >= 7 * n)
                      => \A other \in SectionEnergies :
                             _classify_section_type(i, n, other) = call.result

\* a section in the middle band with an energy of exactly 0.7 is a development
C23_Witness ==
    /\ HasReturned("_classify_section_type")
    /\ call.args.energy = Float(7, 10)
    /\ 10 * call.args.section_index >= 3 * call.args.total_sections
    /\ 10 * call.args.section_index < 7 * call.args.total_sections
    /\ call.result = "development"


\* C24: the pool of _get_section_component_pool grows with the energy: for a
\* section type and energies e1 <= e2, every component type in the pool for e1
\* is in the pool for e2.
C24_PoolMonotonicInEnergy ==
    HasReturned("_get_section_component_pool")
        => \A e1 \in PoolEnergies :
               e1 <= call.args.energy
                   => _get_section_component_pool(call.args.section_type, e1)
                          \subseteq call.result


\* the blackboard after children 1..k were ticked in order
RECURSIVE BlackboardAfter(_, _, _, _)
BlackboardAfter(children, k, audio_features, blackboard) ==
    IF k = 0 THEN blackboard
    ELSE TickNode(children[k], audio_features,
                  BlackboardAfter(children, k - 1, audio_features, blackboard)).blackboard

\* C25: a Sequence tick returns the status of its first child whose status is
\* not SUCCESS (SUCCESS if there is none), a Selector tick the status of its
\* first child whose status is not FAILURE (FAILURE if there is none), and the
\* blackboard afterwards is the one left by the children up to that deciding
\* child: no later child has been ticked.
C25_CompositeStopsAtDecidingChild ==
    (tree.pc = "ticked" /\ tree.root.class \in {"Sequence", "Selector"})
        => LET children == tree.root.children
               goes_on == IF tree.root.class = "Sequence" THEN SUCCESS ELSE FAILURE
               status(k) == TickNode(children[k], tree.audio_features,
                                     BlackboardAfter(children, k - 1, tree.audio_features,
                                                     Blackboard)).status
               deciding == {k \in 1..Len(children) : status(k) # goes_on}
               first == CHOOSE k \in deciding : \A j \in deciding : k <= j
           IN  IF deciding = {}
               THEN /\ tree.status = goes_on
                    /\ tree.blackboard = BlackboardAfter(children, Len(children),
                                                         tree.audio_features, Blackboard)
               ELSE /\ tree.status = status(first)
                    /\ tree.blackboard = BlackboardAfter(children, first,
                                                         tree.audio_features, Blackboard)

\* a Sequence whose condition failed: the action after it would have written
\* the blackboard, and the blackboard is empty
C25_Witness ==
    /\ tree.pc = "ticked"
    /\ tree.root = Sequence(<<IsEnergyAbove(tree.threshold), SelectGeneratorAction("drop")>>)
    /\ tree.status = FAILURE
    /\ tree.blackboard = Blackboard


\* C26: for features with an energy in [0, 1] and a duration >= 0 the
\* blueprint of _procedural_fallback satisfies the Blueprint schema: the track
\* has max(12, min(30, floor(duration / 8))) segments, which is between 12 and
\* 40, the palette has 3 to 5 colours, every segment has an intensity in
\* [0, 100], a climb or drop angle in [-90, 90], and the fields its model
\* requires.
C26_FallbackSatisfiesSchema ==
    HasReturned("_procedural_fallback")
        => LET duration == FeatureGet(call.args, "duration", 120)
               track == call.result.track
           IN  /\ ValidBlueprint(call.result)
               /\ track.len = (IF duration < 96 THEN 12
                               ELSE IF duration >= 240 THEN 30 ELSE duration \div 8)
               /\ \A i \in 1..track.len :
                      LET segment == track.segments[i]
                      IN  /\ segment.intensity >= 0
                          /\ segment.intensity <= Float(100, 1)
                          /\ segment.component \in {"climb", "drop"}
                                 => /\ segment.angle >= -Float(90, 1)
                                    /\ segment.angle <= Float(90, 1)

\* a fallback track at full energy with loops, barrel rolls and drops in it
C26_Witness ==
    /\ HasReturned("_procedural_fallback")
    /\ call.args.energy = 100
    /\ call.result.track.len = 25
    /\ \A component \in {"loop", "barrelRoll", "drop"} :
           \E i \in 1..call.result.track.len :
               call.result.track.segments[i].component = component


\* one turn of the while loop of _generate_section_components
LoopIteration ==
    /\ trackgen.pc = "section"
    /\ trackgen'.section = trackgen.section
    /\ trackgen'.pc # "returned"
    /\ trackgen' # trackgen

\* C27: the component loop of _generate_section_components terminates: every
\* iteration runs with a remaining duration above 10, within a section that
\* is longer than 10, and strictly reduces the remaining duration, by
\* min(100, 0.8 x remaining).
C27_LoopReducesRemaining ==
    [][LoopIteration
           => /\ trackgen.remaining_duration > Float(10, 1)
              /\ trackgen.sections[trackgen.section].duration > Float(10, 1)
              /\ trackgen'.remaining_duration < trackgen.remaining_duration
              /\ trackgen'.remaining_duration =
                     FSub(trackgen.remaining_duration,
                          Min(Float(100, 1),
                              FMul(trackgen.remaining_duration, Float(8, 10))))]_vars


\* C28: with SHA-256 taken as injective, _generate_cache_key gives two
\* requests the same key only if their audio bytes are equal and their options
\* are equal (key order ignored, None and {} counting as equal).
C28_SameKeyOnlyForSameRequest ==
    HasReturned("_generate_cache_key")
        => \A other \in KeyCalls :
               _generate_cache_key(other.args.audio_bytes, other.args.options) = call.result
                   => /\ other.args.audio_bytes = call.args.audio_bytes
                      /\ EquivalentOptions(other.args.options, call.args.options)


\* the stage of a section type in the order of a ride
Stage(type) ==
    CASE type = "intro" -> 1
      [] type = "buildup" -> 2
      [] type \in {"development", "climax"} -> 3
      [] type = "finale" -> 4
      [] type = "outro" -> 5

\* C29: in the section list of _analyze_song_structure the first section is
\* an intro and the section types never go backwards in the order intro,
\* buildup, development or climax, finale, outro.
C29_SectionTypesInOrder ==
    trackgen.pc \notin {"idle", "called"}
        => /\ trackgen.sections[1].type = "intro"
           /\ \A i, j \in 1..Len(trackgen.sections) :
                  i < j => Stage(trackgen.sections[i].type)
                               <= Stage(trackgen.sections[j].type)

\* a section list with all five stages in which a development follows a climax
C29_Witness ==
    /\ trackgen.pc = "section"
    /\ {Stage(trackgen.sections[i].type) : i \in 1..Len(trackgen.sections)} = 1..5
    /\ \E i \in 1..(Len(trackgen.sections) - 1) :
           /\ trackgen.sections[i].type = "climax"
           /\ trackgen.sections[i + 1].type = "development"


\* C30: when the feature extraction failed with status 400, the error
\* generate_blueprint raises to its caller has that same status.
C30_ClientErrorKeepsStatus ==
    (ReturnedCall /\ event.call.analysis_status = 400)
        => /\ event.outcome.kind = "error"
           /\ event.outcome.status = event.call.analysis_status

====
